---- MODULE Spec2Model ----
(***************************************************************************)
(* Model of the configuration loader of ts-dns (cmd/conf/conf.go):         *)
(* Group.GenCallers, Group.GenIPSet, Conf.GenCache, Conf.GenHostsReader    *)
(* and NewHandler.  Strings are sequences of one-character strings so that *)
(* HasSuffix, Contains, Split and the DoH regular expression are computed  *)
(* character by character, as the Go standard library does.                *)
(***************************************************************************)
EXTENDS Integers, Sequences, FiniteSets, TLC

(* ---------------- bounds of the GenCallers specification -------------- *)
MaxDNS == 2
MaxDoT == 2
MaxDoH == 2
MaxList == 2

(* ---------------- string helpers (Go strings package) ----------------- *)
NL == "newline"   \* the character '\n', which '.' of a Go regexp never matches

HasSuffix(s, suf) ==
    Len(s) >= Len(suf) /\ SubSeq(s, Len(s) - Len(suf) + 1, Len(s)) = suf

HasPrefix(s, pre) ==
    Len(s) >= Len(pre) /\ SubSeq(s, 1, Len(pre)) = pre

Contains(s, c) == \E i \in 1..Len(s) : s[i] = c

RECURSIVE SplitGo(_, _, _, _, _)
SplitGo(s, c, i, cur, acc) ==
    IF i > Len(s) THEN Append(acc, cur)
    ELSE IF s[i] = c THEN SplitGo(s, c, i + 1, <<>>, Append(acc, cur))
    ELSE SplitGo(s, c, i + 1, Append(cur, s[i]), acc)

Split(s, c) == SplitGo(s, c, 1, <<>>, <<>>)

SeqsUpTo(S, n) == UNION {[1..k -> S] : k \in 0..n}

(* ---------------- literals used by GenCallers -------------------------- *)
TcpSuffix == <<"/", "t", "c", "p">>
Port53 == <<":", "5", "3">>
Port853 == <<":", "8", "5", "3">>
Https == <<"h", "t", "t", "p", "s", ":", "/", "/">>
DnsQuery == <<"/", "d", "n", "s", "-", "q", "u", "e", "r", "y">>

(* ---------------- proxy.SOCKS5 and the Caller constructors ------------- *)
(* golang.org/x/net/proxy.SOCKS5 builds a dialer for the address and never *)
(* returns an error.                                                        *)
SOCKS5(addr) == [nil |-> FALSE, proxy |-> addr]

\* the nil proxy.Dialer: the caller dials directly
NilDialer == [nil |-> TRUE, proxy |-> <<>>]

NewDNSCaller(addr, network, dialer) ==
    [kind |-> network, addr |-> addr, server |-> <<>>, dialer |-> dialer]

NewDoTCaller(addr, serverName, dialer) ==
    [kind |-> "dot", addr |-> addr, server |-> serverName, dialer |-> dialer]

NewDoHCaller(addr, dialer) ==
    [kind |-> "doh", addr |-> addr, server |-> <<>>, dialer |-> dialer]

(* ---------------- Group.GenCallers -------------------------------------- *)
GenDialer(socks5) == IF socks5 # <<>> THEN SOCKS5(socks5) ELSE NilDialer

DnsEntryNoStrip(addr) ==
    IF HasSuffix(addr, TcpSuffix)
    THEN [addr |-> addr, network |-> "tcp"]
    ELSE [addr |-> addr, network |-> "udp"]

\* one iteration of the dns loop: the network and the address after the
\* "/tcp" suffix is stripped (before the default port is added)
DnsEntry(addr) ==
    IF HasSuffix(addr, TcpSuffix)
    THEN [addr |-> SubSeq(addr, 1, Len(addr) - 4), network |-> "tcp"]
    ELSE [addr |-> addr, network |-> "udp"]

RECURSIVE DnsLoop(_, _, _)
DnsLoop(dns, dialer, callers) ==
    IF dns = <<>> THEN callers
    ELSE LET e == DnsEntry(Head(dns))
             addr == IF Contains(e.addr, ":") THEN e.addr ELSE e.addr \o Port53
         IN DnsLoop(Tail(dns), dialer,
                    IF e.addr # <<>>
                    THEN Append(callers, NewDNSCaller(addr, e.network, dialer))
                    ELSE callers)

DotAddrPort53(addr) == IF Contains(addr, ":") THEN addr ELSE addr \o Port53

\* the default port of a DoT address
DotAddr(addr) == IF Contains(addr, ":") THEN addr ELSE addr \o Port853

RECURSIVE DotLoop(_, _, _)
DotLoop(dot, dialer, callers) ==
    IF dot = <<>> THEN callers
    ELSE LET arr == Split(Head(dot), "@")
         IN IF Len(arr) # 2 THEN DotLoop(Tail(dot), dialer, callers)
            ELSE DotLoop(Tail(dot), dialer,
                         IF arr[1] # <<>> /\ arr[2] # <<>>
                         THEN Append(callers, NewDoTCaller(DotAddr(arr[1]), arr[2], dialer))
                         ELSE callers)

DoHRegStar(s) ==
    /\ Len(s) >= Len(Https) + Len(DnsQuery)
    /\ HasPrefix(s, Https)
    /\ HasSuffix(s, DnsQuery)
    /\ \A i \in (Len(Https) + 1)..(Len(s) - Len(DnsQuery)) : s[i] # NL

\* regexp.MustCompile(`^https://.+/dns-query$`).MatchString
DoHReg(s) ==
    /\ Len(s) >= Len(Https) + 1 + Len(DnsQuery)
    /\ HasPrefix(s, Https)
    /\ HasSuffix(s, DnsQuery)
    /\ \A i \in (Len(Https) + 1)..(Len(s) - Len(DnsQuery)) : s[i] # NL

RECURSIVE DohLoopDirect(_, _, _)
DohLoopDirect(doh, dialer, callers) ==
    IF doh = <<>> THEN callers
    ELSE DohLoopDirect(Tail(doh), dialer,
                 IF DoHReg(Head(doh))
                 THEN Append(callers, NewDoHCaller(Head(doh), NilDialer))
                 ELSE callers)

RECURSIVE DohLoop(_, _, _)
DohLoop(doh, dialer, callers) ==
    IF doh = <<>> THEN callers
    ELSE DohLoop(Tail(doh), dialer,
                 IF DoHReg(Head(doh))
                 THEN Append(callers, NewDoHCaller(Head(doh), dialer))
                 ELSE callers)

GenCallersDohFirst(g) ==
    LET dialer == GenDialer(g.Socks5)
        c1 == DnsLoop(g.DNS, dialer, <<>>)
        c2 == DohLoop(g.DoH, dialer, c1)
    IN DotLoop(g.DoT, dialer, c2)

GenCallers(g) ==
    LET dialer == GenDialer(g.Socks5)
        c1 == DnsLoop(g.DNS, dialer, <<>>)
        c2 == DotLoop(g.DoT, dialer, c1)
    IN DohLoop(g.DoH, dialer, c2)

(* ---------------- the GenCallers specification ------------------------- *)
DnsEntries == { <<>>, <<"a">>, <<"b", ":", "5">>,
                <<"a", "/", "t", "c", "p">>, <<"/", "t", "c", "p">> }
DotEntries == { <<"a", "@", "s">>, <<"b", ":", "5", "@", "t">>, <<"@", "s">>,
                <<"a", "@">>, <<"a", "@", "s", "@", "t">> }
DohEntries == { Https \o <<"h">> \o DnsQuery,
                Https \o <<"g">> \o DnsQuery,
                Https \o DnsQuery,
                <<"h", "t", "t", "p", ":", "/", "/", "h">> \o DnsQuery,
                Https \o <<NL>> \o DnsQuery }
Socks5Opts == { <<>>, <<"p", ":", "1">> }

\* dns and dot lists over every entry shape; a doh list of at most one url
GroupConfigs ==
    [Socks5 : Socks5Opts, IPSet : {<<>>}, IPSetTTL : {0},
     DNS : SeqsUpTo(DnsEntries, MaxDNS), DoT : SeqsUpTo(DotEntries, MaxDoT),
     DoH : {<<>>, << Https \o <<"h">> \o DnsQuery >>}, Concurrent : {FALSE},
     Rules : {<<>>}]

\* every doh url shape, with dns and dot lists over fewer shapes, so that
\* lists of every kind hold several entries
OrderDnsEntries == { <<"a">>, <<"/", "t", "c", "p">>, <<"b", ":", "5", "/", "t", "c", "p">> }
OrderDotEntries == { <<"a", "@", "s">>, <<"@", "s">>, <<"b", ":", "5", "@", "t">> }
OrderGroupConfigs ==
    [Socks5 : Socks5Opts, IPSet : {<<>>}, IPSetTTL : {0},
     DNS : SeqsUpTo(OrderDnsEntries, MaxList), DoT : SeqsUpTo(OrderDotEntries, MaxList),
     DoH : SeqsUpTo(DohEntries, MaxDoH), Concurrent : {FALSE}, Rules : {<<>>}]

VARIABLES group, callers, cpc
cvars == <<group, callers, cpc>>

\* state of NewHandler: the decoded configuration, the outcome of the file
\* reads and ipset creations it performs, its result, the Handler it builds
\* and the cache of that Handler
\* decoded is what toml.DecodeFile produced; conf is NewHandler's local
\* config, which SetDefault and GenCache then update in place
VARIABLES decoded, conf, env, hpc, result, hCache, hListen, hReaders, hGroups,
          cacheEntries, lastGet
hvars == <<decoded, conf, env, hpc, result, hCache, hListen, hReaders, hGroups,
           cacheEntries, lastGet>>

vars == <<group, callers, cpc, decoded, conf, env, hpc, result, hCache, hListen,
          hReaders, hGroups, cacheEntries, lastGet>>

HandlerIdle ==
    /\ decoded = "none" /\ conf = "none" /\ env = "none" /\ hpc = "idle"
    /\ result = "none" /\ hCache = "none" /\ hListen = <<>> /\ hReaders = <<>> /\ hGroups = <<>>
    /\ cacheEntries = {} /\ lastGet = "none"

CallersIdle == group = "none" /\ callers = <<>> /\ cpc = "idle"

CInit ==
    /\ group \in GroupConfigs
    /\ callers = <<>>
    /\ cpc = "init"
    /\ HandlerIdle

GenCallersStep ==
    /\ cpc = "init"
    /\ callers' = GenCallers(group)
    /\ cpc' = "done"
    /\ UNCHANGED group
    /\ UNCHANGED hvars

CNext == GenCallersStep

SpecCallers == CInit /\ [][CNext]_vars

OInit ==
    /\ group \in OrderGroupConfigs
    /\ callers = <<>>
    /\ cpc = "init"
    /\ HandlerIdle

SpecOrder == OInit /\ [][CNext]_vars

(* ---------------- Group.GenIPSet ---------------------------------------- *)
\* ipset.New(name, "hash:ip", &Params{Timeout: ttl}) succeeds or fails
\* (e.g. without the permission to create a set); ok is that outcome
GenIPSet(g, ok) ==
    IF g.IPSet # <<>>
    THEN IF ok THEN [ipSet |-> [name |-> g.IPSet, kind |-> "hash:ip", timeout |-> g.IPSetTTL],
                     err |-> FALSE]
               ELSE [ipSet |-> "nil", err |-> TRUE]
    ELSE [ipSet |-> "nil", err |-> FALSE]

(* ---------------- cache.NewDNSCache and the cache operations ----------- *)
(* The cache package is not part of the sources at hand; its behaviour is  *)
(* the spec's (section 4.2): a non-positive size disables caching, Get     *)
(* misses, Set is a no-op; otherwise Set stores and evicts at capacity.    *)
(* Expiry is not modelled.                                                 *)
NewDNSCache(size, minTTL, maxTTL) == [size |-> size, minTTL |-> minTTL, maxTTL |-> maxTTL]

DefaultCacheSize == 4096
DefaultMinTTL == 60
DefaultMaxTTL == 86400

(* ---------------- Conf.GenCache ----------------------------------------- *)
\* GenCache dereferences conf.Cache: a configuration without a [cache]
\* section (conf.Cache = nil) makes it panic; NewHandlerOutcome checks that
GenCacheNoDefault(c) ==
    LET minTTL == IF c.MinTTL = 0 THEN DefaultMinTTL ELSE c.MinTTL
        maxTTL == IF c.MaxTTL = 0 THEN DefaultMaxTTL ELSE c.MaxTTL
    IN NewDNSCache(c.Size, minTTL, maxTTL)

\* the defaults GenCache writes back into *conf.Cache
GenCacheDefaults(c) ==
    [c EXCEPT !.Size = IF c.Size = 0 THEN DefaultCacheSize ELSE c.Size,
              !.MinTTL = IF c.MinTTL = 0 THEN DefaultMinTTL ELSE c.MinTTL,
              !.MaxTTL = IF c.MaxTTL = 0 THEN DefaultMaxTTL ELSE c.MaxTTL]

\* the cache GenCache returns, built from the defaulted fields
GenCache(c) ==
    LET d == GenCacheDefaults(c)
    IN NewDNSCache(d.Size, d.MinTTL, d.MaxTTL)

(* ---------------- Conf.SetDefault --------------------------------------- *)
DefaultListen == <<":", "5", "3">>
DefaultGFWList == <<"g", "f", "w", "l", "i", "s", "t", ".", "t", "x", "t">>
DefaultCNIP == <<"c", "n", "i", "p", ".", "t", "x", "t">>

SetDefault(c) ==
    [c EXCEPT !.Listen = IF c.Listen = <<>> THEN DefaultListen ELSE c.Listen,
              !.GFWList = IF c.GFWList = <<>> THEN DefaultGFWList ELSE c.GFWList,
              !.CNIP = IF c.CNIP = <<>> THEN DefaultCNIP ELSE c.CNIP]

(* ---------------- Conf.GenHostsReader ----------------------------------- *)
\* hosts.NewReaderByFile(filename, 0) succeeds when the file is readable
RECURSIVE HostsFilesLoopBreak(_, _, _)
HostsFilesLoopBreak(files, fileOk, readers) ==
    IF files = <<>> THEN readers
    ELSE IF ~fileOk[Head(files)] THEN readers
    ELSE HostsFilesLoopBreak(Tail(files), fileOk, Append(readers, Head(files)))

RECURSIVE HostsFilesLoop(_, _, _)
HostsFilesLoop(files, fileOk, readers) ==
    IF files = <<>> THEN readers
    ELSE HostsFilesLoop(Tail(files), fileOk,
                        IF ~fileOk[Head(files)] THEN readers   \* logged, skipped
                        ELSE Append(readers, Head(files)))

GenHostsReader(c, fileOk) ==
    LET readers == IF c.Hosts # {} THEN <<"text">> ELSE <<>>
    IN HostsFilesLoop(c.HostsFiles, fileOk, readers)

(* ---------------- NewHandler -------------------------------------------- *)
GroupNames == {"clean", "dirty"}
Files == {"f1", "f2"}
Keys == {"k1", "k2"}

GA == [Socks5 |-> <<>>, IPSet |-> <<>>, IPSetTTL |-> 0, DNS |-> << <<"a">> >>,
       DoT |-> <<>>, DoH |-> <<>>, Concurrent |-> FALSE, Rules |-> <<>>]
GB == [Socks5 |-> <<>>, IPSet |-> <<>>, IPSetTTL |-> 0, DNS |-> << TcpSuffix >>,
       DoT |-> <<>>, DoH |-> <<>>, Concurrent |-> FALSE, Rules |-> <<>>]
GC == [Socks5 |-> <<"p", ":", "1">>, IPSet |-> <<"s">>, IPSetTTL |-> 60, DNS |-> <<>>,
       DoT |-> << <<"a", "@", "s">> >>, DoH |-> <<>>, Concurrent |-> TRUE, Rules |-> <<>>]
HandlerGroupConfigs == {GA, GB, GC}

GroupsOpts == UNION {[D -> HandlerGroupConfigs] : D \in SUBSET GroupNames}
\* a configuration without a [cache] section decodes to conf.Cache = nil
CacheOpts == [nil : {TRUE}, Size : {0}, MinTTL : {0}, MaxTTL : {0}] \cup
             [nil : {FALSE}, Size : {-1, 0, 1}, MinTTL : {0, 5}, MaxTTL : {0}]
HostsOpts == { {}, {[host |-> "example.com", ip |-> "8.8.8.8"]} }
HostsFilesOpts == { <<>>, <<"f1">>, <<"f1", "f2">> }

Confs == [Listen : {<<>>, <<":", "5">>}, GFWList : {<<>>}, CNIP : {<<>>},
          Hosts : HostsOpts, HostsFiles : HostsFilesOpts, Cache : CacheOpts,
          Groups : GroupsOpts]
Envs == [decodeOk : BOOLEAN, gfwOk : BOOLEAN, cnipOk : BOOLEAN,
         fileOk : [Files -> BOOLEAN], ipsetOk : [GroupNames -> BOOLEAN]]

\* the Handler's groups, built by the loop over config.Groups
HandlerGroups(c, e) ==
    [n \in DOMAIN c.Groups |->
        [callers |-> GenCallers(c.Groups[n]),
         concurrent |-> c.Groups[n].Concurrent,
         ipSet |-> GenIPSet(c.Groups[n], e.ipsetOk[n]).ipSet]]

\* the validity check of conf.go:196, with Go's short-circuit evaluation;
\* handler.Groups["clean"] of a missing key is a nil *Group whose Callers
\* field access panics
ValidityCheck(hg) ==
    CASE DOMAIN hg = {}                -> "error"
      [] "clean" \notin DOMAIN hg      -> "panic"
      [] Len(hg["clean"].callers) <= 0 -> "error"
      [] "dirty" \notin DOMAIN hg      -> "panic"
      [] Len(hg["dirty"].callers) <= 0 -> "error"
      [] OTHER                         -> "handler"

NewHandlerOutcomeIgnoreIPSet(c, e) ==
    CASE ~e.decodeOk -> "error"
      [] ~e.gfwOk    -> "error"
      [] ~e.cnipOk   -> "error"
      [] c.Cache.nil -> "panic"
      [] OTHER -> ValidityCheck(HandlerGroups(c, e))

NewHandlerOutcome(c, e) ==
    CASE ~e.decodeOk -> "error"
      [] ~e.gfwOk    -> "error"
      [] ~e.cnipOk   -> "error"
      [] c.Cache.nil -> "panic"
      [] \E n \in DOMAIN c.Groups : GenIPSet(c.Groups[n], e.ipsetOk[n]).err -> "error"
      [] OTHER -> ValidityCheck(HandlerGroups(c, e))

Init ==
    /\ decoded \in Confs
    /\ conf = decoded
    /\ env \in Envs
    /\ hpc = "init"
    /\ result = "none"
    /\ hCache = "none" /\ hListen = <<>> /\ hReaders = <<>> /\ hGroups = <<>>
    /\ cacheEntries = {} /\ lastGet = "none"
    /\ CallersIdle

\* the local config after NewHandler returns: SetDefault runs after a
\* successful decode, GenCache's write-back once gfwlist and cnip are read
\* and conf.Cache is not nil
ConfAfter(c, e) ==
    IF ~e.decodeOk THEN c
    ELSE LET d == SetDefault(c)
         IN IF e.gfwOk /\ e.cnipOk /\ ~d.Cache.nil
            THEN [d EXCEPT !.Cache = GenCacheDefaults(d.Cache)]
            ELSE d

NewHandler ==
    /\ hpc = "init"
    /\ hpc' = "done"
    /\ result' = NewHandlerOutcome(conf, env)
    /\ conf' = ConfAfter(conf, env)
    /\ IF result' = "handler"
       THEN /\ hCache' = GenCache(SetDefault(conf).Cache)
            /\ hListen' = SetDefault(conf).Listen
            /\ hReaders' = GenHostsReader(SetDefault(conf), env.fileOk)
            /\ hGroups' = HandlerGroups(SetDefault(conf), env)
       ELSE UNCHANGED <<hCache, hListen, hReaders, hGroups>>
    /\ UNCHANGED <<decoded, env, cacheEntries, lastGet>>
    /\ UNCHANGED cvars

CacheSet(k) ==
    /\ hpc = "done" /\ result = "handler"
    /\ IF hCache.size <= 0 \/ k \in cacheEntries
       THEN UNCHANGED cacheEntries
       ELSE IF Cardinality(cacheEntries) >= hCache.size
            THEN \E v \in cacheEntries : cacheEntries' = (cacheEntries \ {v}) \cup {k}
            ELSE cacheEntries' = cacheEntries \cup {k}
    /\ UNCHANGED <<decoded, conf, env, hpc, result, hCache, hListen, hReaders, hGroups,
                   lastGet>>
    /\ UNCHANGED cvars

CacheGet(k) ==
    /\ hpc = "done" /\ result = "handler"
    /\ lastGet' = IF hCache.size > 0 /\ k \in cacheEntries THEN "hit" ELSE "miss"
    /\ UNCHANGED <<decoded, conf, env, hpc, result, hCache, hListen, hReaders, hGroups,
                   cacheEntries>>
    /\ UNCHANGED cvars

Next ==
    \/ NewHandler
    \/ \E k \in Keys : CacheSet(k)
    \/ \E k \in Keys : CacheGet(k)

Spec == Init /\ [][Next]_vars

(* ---------------- properties of GenCallers ----------------------------- *)
Project(c) == [kind |-> c.kind, addr |-> c.addr, server |-> c.server]
ProjectSeq(s) == [i \in 1..Len(s) |-> Project(s[i])]

\* an address of the form ip[:port] has a port when it carries a ':'
HasPort(a) == \E i \in 1..Len(a) : a[i] = ":"

\* what the dns list should give, read from the claim
DnsIsTcp(e) == HasSuffix(e, TcpSuffix)
DnsHost(e) == IF DnsIsTcp(e) THEN SubSeq(e, 1, Len(e) - Len(TcpSuffix)) ELSE e
DnsExpected(e) ==
    [kind |-> IF DnsIsTcp(e) THEN "tcp" ELSE "udp",
     addr |-> IF HasPort(DnsHost(e)) THEN DnsHost(e) ELSE DnsHost(e) \o Port53,
     server |-> <<>>]
ExpDns(g) ==
    LET valid == SelectSeq(g.DNS, LAMBDA e : DnsHost(e) # <<>>)
    IN [i \in 1..Len(valid) |-> DnsExpected(valid[i])]

\* what the dot list should give: exactly one '@', both sides non-empty
AtPositions(e) == {i \in 1..Len(e) : e[i] = "@"}
DotValid(e) ==
    /\ Cardinality(AtPositions(e)) = 1
    /\ LET p == CHOOSE i \in AtPositions(e) : TRUE
       IN p > 1 /\ p < Len(e)
DotExpected(e) ==
    LET p == CHOOSE i \in AtPositions(e) : TRUE
        host == SubSeq(e, 1, p - 1)
    IN [kind |-> "dot",
        addr |-> IF HasPort(host) THEN host ELSE host \o Port853,
        server |-> SubSeq(e, p + 1, Len(e))]
ExpDot(g) ==
    LET valid == SelectSeq(g.DoT, DotValid)
    IN [i \in 1..Len(valid) |-> DotExpected(valid[i])]

\* what the doh list should give: https://<host>/dns-query, host matched by .+
DohValid(e) ==
    \E n \in 1..Len(e) :
        /\ Len(e) = Len(Https) + n + Len(DnsQuery)
        /\ e = Https \o SubSeq(e, Len(Https) + 1, Len(Https) + n) \o DnsQuery
        /\ \A i \in (Len(Https) + 1)..(Len(Https) + n) : e[i] # NL
ExpDoh(g) ==
    LET valid == SelectSeq(g.DoH, DohValid)
    IN [i \in 1..Len(valid) |-> [kind |-> "doh", addr |-> valid[i], server |-> <<>>]]

KindsOf(s) == {s[i].kind : i \in DOMAIN s}

\* C5: every dns entry gives a TCP caller (entry ends in "/tcp", suffix
\* stripped) or a UDP caller, ":53" is added when the address has no port,
\* and entries whose address is empty give no caller.
C5_DnsCallers ==
    cpc = "done" =>
        ProjectSeq(SelectSeq(callers, LAMBDA c : c.kind \in {"udp", "tcp"})) = ExpDns(group)

C5_Witness ==
    /\ cpc = "done"
    /\ {"udp", "tcp"} \subseteq KindsOf(callers)
    /\ \E i \in DOMAIN callers : HasSuffix(callers[i].addr, Port53)

\* C6: a DoT caller is created exactly for the entries addr@serverName with
\* one '@' and both parts non-empty, verified against serverName, with
\* ":853" added when addr has no port; other entries are skipped.
C6_DotCallers ==
    cpc = "done" =>
        ProjectSeq(SelectSeq(callers, LAMBDA c : c.kind = "dot")) = ExpDot(group)

C6_Witness ==
    /\ cpc = "done"
    /\ \E i \in DOMAIN callers : callers[i].kind = "dot" /\ HasSuffix(callers[i].addr, Port853)
    /\ \E i \in DOMAIN group.DoT : ~DotValid(group.DoT[i])

\* C7: a DoH caller is created exactly for the urls matching
\* ^https://.+/dns-query$; other urls give no caller.
C7_DohCallers ==
    cpc = "done" =>
        ProjectSeq(SelectSeq(callers, LAMBDA c : c.kind = "doh")) = ExpDoh(group)

C7_Witness ==
    /\ cpc = "done"
    /\ "doh" \in KindsOf(callers)
    /\ \E i, j \in DOMAIN group.DoH : i < j /\ ~DohValid(group.DoH[i]) /\ DohValid(group.DoH[j])

\* C8: with a socks5 address every caller gets the same SOCKS5 dialer for
\* that address; without one every caller gets a nil dialer.
C8_SharedDialer ==
    cpc = "done" =>
        \A i \in DOMAIN callers :
            callers[i].dialer = IF group.Socks5 # <<>>
                                THEN [nil |-> FALSE, proxy |-> group.Socks5]
                                ELSE [nil |-> TRUE, proxy |-> <<>>]

C8_Witness ==
    /\ cpc = "done"
    /\ group.Socks5 # <<>>
    /\ {"udp", "dot", "doh"} \subseteq KindsOf(callers)

\* C10: the callers are the valid dns entries in configured order, then the
\* valid dot entries in order, then the valid doh entries in order.
C10_CallerOrder ==
    cpc = "done" => ProjectSeq(callers) = ExpDns(group) \o ExpDot(group) \o ExpDoh(group)

C10_Witness ==
    /\ cpc = "done"
    /\ {"tcp", "dot", "doh"} \subseteq KindsOf(callers)
    /\ Len(SelectSeq(callers, LAMBDA c : c.kind = "dot")) = 2
    /\ Len(SelectSeq(callers, LAMBDA c : c.kind = "doh")) = 2
    /\ callers[Len(callers) - 1].addr # callers[Len(callers)].addr

(* ---------------- properties of NewHandler ----------------------------- *)
\* the configuration lacks "clean" or "dirty", or one of them has no caller
MandatoryGroupInvalid ==
    \/ "clean" \notin DOMAIN decoded.Groups
    \/ "dirty" \notin DOMAIN decoded.Groups
    \/ GenCallers(decoded.Groups["clean"]) = <<>>
    \/ GenCallers(decoded.Groups["dirty"]) = <<>>

\* NewHandler reaches the group loop (decode, gfwlist and cnip succeeded and
\* GenCache did not dereference a nil conf.Cache) and ipset creation fails
\* for a group that names a set
SomeIPSetFails ==
    /\ env.decodeOk /\ env.gfwOk /\ env.cnipOk /\ ~decoded.Cache.nil
    /\ \E n \in DOMAIN decoded.Groups : decoded.Groups[n].IPSet # <<>> /\ ~env.ipsetOk[n]

\* C1: a configuration lacking "clean" or "dirty", or with either of them
\* without callers, makes NewHandler return (nil, error).
C1_MandatoryGroups ==
    (hpc = "done" /\ MandatoryGroupInvalid) => result = "error"

\* C2 (as stated): a configured cache size <= 0 disables caching: Get always
\* misses and Set stores nothing.
C2_NonPositiveSizeDisables ==
    (hpc = "done" /\ result = "handler" /\ decoded.Cache.Size <= 0)
        => (cacheEntries = {} /\ lastGet # "hit")

\* C2 (amended): a negative configured size disables caching (Get misses,
\* Set stores nothing); a configured size of 0 is replaced by the default
\* 4096, and a positive size is kept.
C2_NegativeDisablesZeroDefaults ==
    (hpc = "done" /\ result = "handler") =>
        /\ decoded.Cache.Size < 0 => (cacheEntries = {} /\ lastGet # "hit")
        /\ decoded.Cache.Size = 0 => hCache.size = 4096
        /\ decoded.Cache.Size > 0 => hCache.size = decoded.Cache.Size

C2_Witness ==
    /\ hpc = "done" /\ result = "handler"
    /\ decoded.Cache.Size < 0
    /\ lastGet = "miss"

\* C3: a failed TOML decode, gfwlist read, cnip read or ipset creation (of a
\* group NewHandler reaches) makes NewHandler return (nil, error).
C3_LoadErrorsFatal ==
    (hpc = "done" /\ (~env.decodeOk \/ ~env.gfwOk \/ ~env.cnipOk \/ SomeIPSetFails))
        => result = "error"

C3_Witness ==
    /\ hpc = "done"
    /\ SomeIPSetFails
    /\ result = "error"

\* C4: an unreadable hosts file is skipped: the readers are the inline hosts
\* reader (if any hosts) and one reader per readable file, in order; and an
\* error of NewHandler always has a cause other than the hosts files.
C4_HostsFailureSwallowed ==
    hpc = "done" =>
        /\ result = "handler" =>
               hReaders = (IF decoded.Hosts # {} THEN <<"text">> ELSE <<>>)
                          \o SelectSeq(decoded.HostsFiles, LAMBDA f : env.fileOk[f])
        /\ result = "error" =>
               (~env.decodeOk \/ ~env.gfwOk \/ ~env.cnipOk \/ SomeIPSetFails
                \/ MandatoryGroupInvalid)

C4_Witness ==
    /\ hpc = "done" /\ result = "handler"
    /\ \E i \in DOMAIN decoded.HostsFiles : ~env.fileOk[decoded.HostsFiles[i]]
    /\ \E i \in DOMAIN hReaders : hReaders[i] \in Files

\* C9: NewHandler never panics: it returns a Handler or an error.
C9_NeverPanics ==
    hpc = "done" => result \in {"handler", "error"}

====
